---------------------------- MODULE Spec2Model ----------------------------
(***************************************************************************)
(* A model of IntroToSIMDOperations/main.cpp: the SSE tutorial program,    *)
(* its elementwise-add loop, its array-of-structs dot product and its      *)
(* structure-of-arrays batched dot-product loop.                           *)
(*                                                                         *)
(* A float is the record [s, e, m] of value (-1)^s * m * 2^e, with         *)
(* 2^23 <= m < 2^24 (a normal binary32 number) or m = 0 (a signed zero).   *)
(* Sums and products round to nearest, ties to even, as the SSE unit does  *)
(* under the default MXCSR.  All intermediate integers stay below 2^31.    *)
(***************************************************************************)
EXTENDS Integers, Sequences, FiniteSets, TLC

\* A value that was never written (fresh _aligned_malloc memory, an
\* unassigned register) or that was read outside a buffer.
Undef == [s |-> 2, e |-> 0, m |-> 0]

\* The result of an operation that leaves the normal binary32 range.
OutOfRange == [s |-> 3, e |-> 0, m |-> 0]

IsNum(f) == f.s \in {0, 1}

Hidden == 2^23

MantEnd == 2^24

MinExp == 0 - 149

MaxExp == 127 - 23

Mk(s, e, m) == [s |-> s, e |-> e, m |-> m]

FZero(s) == Mk(s, 0, 0)

\* The number of bits of n > 0, for n < 2^30.
RECURSIVE BitLen(_)
BitLen(n) == IF n = 0 THEN 0 ELSE 1 + BitLen(n \div 2)

\* sig * 2^e rounded to 24 significant bits, ties to even; sig > 0.
RoundPack(s, e, sig) ==
  LET p == BitLen(sig)
  IN IF p <= 24
       THEN LET ee == e - (24 - p)
            IN IF ee < MinExp \/ ee > MaxExp THEN OutOfRange
               ELSE Mk(s, ee, sig * 2^(24 - p))
       ELSE LET sh   == p - 24
                q    == sig \div 2^sh
                r    == sig % 2^sh
                half == 2^(sh - 1)
                up   == r > half \/ (r = half /\ q % 2 = 1)
                q1   == IF up THEN q + 1 ELSE q
                m1   == IF q1 = MantEnd THEN Hidden ELSE q1
                e1   == IF q1 = MantEnd THEN e + sh + 1 ELSE e + sh
            IN IF e1 < MinExp \/ e1 > MaxExp THEN OutOfRange
               ELSE Mk(s, e1, m1)

\* (float)n of a small non-negative int (main.cpp:61, the int operand of :62).
IntToFloat(n) == IF n = 0 THEN FZero(0) ELSE RoundPack(0, 0, n)

\* a * b in binary32 (mulps, one lane; the scalar * of main.cpp:62).
FMul(a, b) ==
  IF ~IsNum(a) \/ ~IsNum(b) THEN (IF a = OutOfRange \/ b = OutOfRange THEN OutOfRange ELSE Undef)
  ELSE LET s == (a.s + b.s) % 2
       IN IF a.m = 0 \/ b.m = 0 THEN FZero(s)
          ELSE LET a1  == a.m \div 4096
                   a0  == a.m % 4096
                   b1  == b.m \div 4096
                   b0  == b.m % 4096
                   mid == a1 * b0 + a0 * b1
                   lo  == a0 * b0 + (mid % 4096) * 4096
                   hi  == a1 * b1 + (mid \div 4096) + (lo \div MantEnd)
                   lw  == lo % MantEnd
                   \* the product is hi * 2^24 + lw, 2^46 <= product < 2^48
                   top == hi >= Hidden
                   q   == IF top THEN hi ELSE 2 * hi + (lw \div Hidden)
                   r   == IF top THEN lw ELSE lw % Hidden
                   half == IF top THEN Hidden ELSE Hidden \div 2
                   ex  == a.e + b.e + (IF top THEN 24 ELSE 23)
                   up  == r > half \/ (r = half /\ q % 2 = 1)
                   q1  == IF up THEN q + 1 ELSE q
                   m1  == IF q1 = MantEnd THEN Hidden ELSE q1
                   e1  == IF q1 = MantEnd THEN ex + 1 ELSE ex
               IN IF e1 < MinExp \/ e1 > MaxExp THEN OutOfRange
                  ELSE Mk(s, e1, m1)

\* a + b in binary32 (addps, one lane; the scalar + of main.cpp:136).
FAdd(a, b) ==
  IF ~IsNum(a) \/ ~IsNum(b) THEN (IF a = OutOfRange \/ b = OutOfRange THEN OutOfRange ELSE Undef)
  ELSE IF a.m = 0 /\ b.m = 0 THEN FZero(IF a.s = 1 /\ b.s = 1 THEN 1 ELSE 0)
  ELSE IF a.m = 0 THEN b
  ELSE IF b.m = 0 THEN a
  ELSE LET aBig == a.e > b.e \/ (a.e = b.e /\ a.m >= b.m)
           g    == IF aBig THEN a ELSE b
           l    == IF aBig THEN b ELSE a
           d    == g.e - l.e
           \* three extra bits: guard, round, sticky
           G    == g.m * 8
           L    == IF d >= 27 THEN 1
                   ELSE LET q == (l.m * 8) \div 2^d
                            st == IF (l.m * 8) % 2^d = 0 THEN 0 ELSE 1
                        IN IF q % 2 = 0 THEN q + st ELSE q
       IN IF g.s = l.s THEN RoundPack(g.s, g.e - 3, G + L)
          ELSE IF G = L THEN FZero(0)
          ELSE RoundPack(g.s, g.e - 3, G - L)


(***************************************************************************)
(* The float literals of the program.                                      *)
(***************************************************************************)
\* 0.1f (main.cpp:62, :167-:170): 13421773 * 2^-27.
F0_1 == Mk(0, 0 - 27, 13421773)

\* 1.0f (main.cpp:118-:121, :173-:176).
F1_0 == Mk(0, 0 - 23, Hidden)

\* 2.0f (main.cpp:123-:126).
F2_0 == Mk(0, 0 - 22, Hidden)

(***************************************************************************)
(* The integer literals of the program.                                    *)
(***************************************************************************)
FooLen == 8

BarLen == 8

ResultsLen == 8

VectorsLen == 8

XLen == 64

YLen == 64

ZLen == 64

WLen == 64

DpLen == 64

FillBound == 8

AddBound == 8

InitBound == 64

KernelBound == 64

PrintResultsLen == 8

PrintDpLen == 8

\* The floats of one __m128 and the step of the SIMD loops.
Width == 4

Lanes == 0 .. (Width - 1)

(***************************************************************************)
(* Buffers and __m128 values.  A buffer is a function from 0 .. len-1 to   *)
(* floats; a pointer that was never assigned is the empty function.  An    *)
(* __m128 is a function from Lanes to floats.                              *)
(***************************************************************************)
NoBuf == <<>>

\* _aligned_malloc(sizeof(float) * len, 16): len floats, none written yet.
AlignedMalloc(len) == [j \in 0 .. (len - 1) |-> Undef]

Undef4 == [k \in Lanes |-> Undef]

\* buf[j], Undef outside the allocation.
Rd(buf, j) == IF j \in DOMAIN buf THEN buf[j] ELSE Undef

\* buf[j] = v; a write outside the allocation leaves the buffer as it is
\* (and is recorded as a fault by the statement that issues it).
Wr(buf, j, v) == IF j \in DOMAIN buf THEN [buf EXCEPT ![j] = v] ELSE buf

\* Every float in buf[off .. off+n-1] is inside the allocation.
InBounds(buf, off, n) == \A k \in 0 .. (n - 1) : (off + k) \in DOMAIN buf

\* ... and was written before.
Readable(buf, off, n) ==
  \A k \in 0 .. (n - 1) : (off + k) \in DOMAIN buf /\ buf[off + k] # Undef

\* _mm_load_ps(buf + off)
LoadPs(buf, off) == [k \in Lanes |-> Rd(buf, off + k)]

\* _mm_load1_ps(buf + off)
Load1Ps(buf, off) == [k \in Lanes |-> Rd(buf, off)]

\* _mm_mul_ps(a, b)
MulPs(a, b) == [k \in Lanes |-> FMul(a[k], b[k])]

\* _mm_add_ps(a, b)
AddPs(a, b) == [k \in Lanes |-> FAdd(a[k], b[k])]

\* _mm_store_ps(buf + off, v)
StorePs(buf, off, v) ==
  [j \in DOMAIN buf |-> IF j >= off /\ j < off + Width THEN v[j - off] ELSE buf[j]]

(***************************************************************************)
(* The statements of the batched dot-product loop, as functions of what    *)
(* they read.                                                              *)
(***************************************************************************)
\* Mutant: the reference is loaded with _mm_load_ps, four different floats.
Broadcast_LoadPs(buf) == LoadPs(buf, 0)

\* main.cpp:180, :193-:195   __m128 x1 = _mm_load1_ps(x + 0);
Broadcast(buf) == Load1Ps(buf, 0)

\* Mutant: the block is loaded one float on, reaching into the next block.
MulStmt_NextFloat(ref, buf, at) == MulPs(ref, LoadPs(buf, at + 1))

\* main.cpp:201-:204   __m128 dx = _mm_mul_ps(x1, _mm_load_ps(x + i));
MulStmt(ref, buf, at) == MulPs(ref, LoadPs(buf, at))

\* main.cpp:210   dx = _mm_add_ps(dx, dy);
Add210(vdx, vdy) == AddPs(vdx, vdy)

\* Mutant: the second inner sum is lost, dz stays the z products.
Add211_Dropped(vdz, vdw) == vdz

\* main.cpp:211   dz = _mm_add_ps(dz, dw);
Add211(vdz, vdw) == AddPs(vdz, vdw)

\* main.cpp:212   dx = _mm_add_ps(dx, dz);
Add212(vdx, vdz) == AddPs(vdx, vdz)

\* Mutant: the store spills a fifth float into the next block's results.
Store215_FiveWide(buf, at, vdx) ==
  [j \in DOMAIN buf |->
     IF j >= at /\ j < at + Width THEN vdx[j - at]
     ELSE IF j = at + Width THEN vdx[0] ELSE buf[j]]

\* main.cpp:215   _mm_store_ps(dp + i, dx);
Store215(buf, at, vdx) == StorePs(buf, at, vdx)

\* Mutant: i <= 64.
Cond198_Inclusive(at, bound) == at <= bound

\* main.cpp:198   i < 64, with the bound the run was given
Cond198(at, bound) == at < bound

\* main.cpp:198   i += 4
Inc198(at) == at + Width


(***************************************************************************)
(* The state of a run.                                                     *)
(*   pc      the statement main (or printFloats) executes next, by its     *)
(*           line in main.cpp                                              *)
(*   i       the loop counter in scope (each for loop declares its own)    *)
(*   mem     the heap buffers foo, bar, results, vectors, x, y, z, w, dp   *)
(*   live    the buffers that are allocated and not freed                  *)
(*   reg     the __m128 locals a, b, c, x1 .. w1, dx .. dw and the float   *)
(*           product                                                       *)
(*   call    the frame of printFloats: its arguments and its return point  *)
(*   out     the calls of printf so far, each as <<format, argument>>      *)
(*   N       the bound of the batched loop (64 in the program)             *)
(*   fault   an access outside a buffer, or a read of a float never        *)
(*           written, has happened                                         *)
(*   stored  the offsets at which _mm_store_ps wrote to dp, in order       *)
(*   nload1  per broadcast register, the number of _mm_load1_ps into it    *)
(*   wk      per worker of the block-parallel run: its statement, its      *)
(*           block and its private dx .. dw                                *)
(*   taken   the blocks some worker has started                            *)
(***************************************************************************)
VARIABLES pc, i, mem, live, reg, call, out, N, fault, stored, nload1, wk, taken

vars == <<pc, i, mem, live, reg, call, out, N, fault, stored, nload1, wk, taken>>

Workers == {"t1", "t2"}

NoMem ==
  [foo |-> NoBuf, bar |-> NoBuf, results |-> NoBuf, vectors |-> NoBuf,
   x |-> NoBuf, y |-> NoBuf, z |-> NoBuf, w |-> NoBuf, dp |-> NoBuf]

NoReg ==
  [a |-> Undef4, b |-> Undef4, c |-> Undef4, product |-> Undef,
   x1 |-> Undef4, y1 |-> Undef4, z1 |-> Undef4, w1 |-> Undef4,
   dx |-> Undef4, dy |-> Undef4, dz |-> Undef4, dw |-> Undef4]

NoCall == [output |-> "none", length |-> 0, ret |-> "none"]

IdleWorkers ==
  [t \in Workers |->
     [pc |-> "idle", i |-> 0, dx |-> Undef4, dy |-> Undef4, dz |-> Undef4, dw |-> Undef4]]

NoLoads == [x1 |-> 0, y1 |-> 0, z1 |-> 0, w1 |-> 0]

\* The state main starts in.
Init ==
  /\ pc = "L57"
  /\ i = 0
  /\ mem = NoMem
  /\ live = {}
  /\ reg = NoReg
  /\ call = NoCall
  /\ out = <<>>
  /\ N = KernelBound
  /\ fault = FALSE
  /\ stored = <<>>
  /\ nload1 = NoLoads
  /\ wk = IdleWorkers
  /\ taken = {}

(***************************************************************************)
(* Statement shapes.                                                       *)
(***************************************************************************)
\* float* name = (float*)_aligned_malloc(sizeof(float) * len, 16);
Malloc(from, to, name, len) ==
  /\ pc = from
  /\ pc' = to
  /\ mem' = [mem EXCEPT ![name] = AlignedMalloc(len)]
  /\ live' = live \cup {name}
  /\ UNCHANGED <<i, reg, call, out, N, fault, stored, nload1, wk, taken>>

\* name[idx] = val;
Assign(from, to, name, idx, val) ==
  /\ pc = from
  /\ pc' = to
  /\ mem' = [mem EXCEPT ![name] = Wr(@, idx, val)]
  /\ fault' = (fault \/ ~InBounds(mem[name], idx, 1))
  /\ UNCHANGED <<i, live, reg, call, out, N, stored, nload1, wk, taken>>

\* for (int i = v; ...
ForInit(from, to, v) ==
  /\ pc = from
  /\ pc' = to
  /\ i' = v
  /\ UNCHANGED <<mem, live, reg, call, out, N, fault, stored, nload1, wk, taken>>

\* for (...; cond; ...
ForTest(from, body, exit, cond) ==
  /\ pc = from
  /\ pc' = IF cond THEN body ELSE exit
  /\ UNCHANGED <<i, mem, live, reg, call, out, N, fault, stored, nload1, wk, taken>>

\* for (...; ...; i = v)
ForInc(from, to, v) ==
  /\ pc = from
  /\ pc' = to
  /\ i' = v
  /\ UNCHANGED <<mem, live, reg, call, out, N, fault, stored, nload1, wk, taken>>

\* __m128 r = <an expression over registers and readable memory>;
SetReg(from, to, r, val, ok) ==
  /\ pc = from
  /\ pc' = to
  /\ reg' = [reg EXCEPT ![r] = val]
  /\ fault' = (fault \/ ~ok)
  /\ UNCHANGED <<i, mem, live, call, out, N, stored, nload1, wk, taken>>

\* _mm_store_ps(name + off, v);
StoreTo(from, to, name, off, v) ==
  /\ pc = from
  /\ pc' = to
  /\ mem' = [mem EXCEPT ![name] = StorePs(@, off, v)]
  /\ fault' = (fault \/ ~InBounds(mem[name], off, Width))
  /\ UNCHANGED <<i, live, reg, call, out, N, stored, nload1, wk, taken>>

\* printf(fmt, arg);  ok: the argument was written before
Printf(from, to, fmt, arg, ok) ==
  /\ pc = from
  /\ pc' = to
  /\ out' = Append(out, <<fmt, arg>>)
  /\ fault' = (fault \/ ~ok)
  /\ UNCHANGED <<i, mem, live, reg, call, N, stored, nload1, wk, taken>>

\* printFloats(name, len); returning to ret
Call(from, name, len, ret) ==
  /\ pc = from
  /\ pc' = "L243"
  /\ call' = [output |-> name, length |-> len, ret |-> ret]
  /\ UNCHANGED <<i, mem, live, reg, out, N, fault, stored, nload1, wk, taken>>

(***************************************************************************)
(* main, lines 57-103: foo, bar and the elementwise add.                   *)
(***************************************************************************)
L57 == Malloc("L57", "L58", "foo", FooLen)

L58 == Malloc("L58", "L60", "bar", BarLen)

L60 == ForInit("L60", "L60t", 0)

Cond60(at) == at < FillBound

L60t == ForTest("L60t", "L61", "L67", Cond60(i))

\* foo[i] = i;
L61 == Assign("L61", "L62", "foo", i, IntToFloat(i))

\* bar[i] = i * 0.1f;
L62 == Assign("L62", "L60i", "bar", i, FMul(IntToFloat(i), F0_1))

L60i == ForInc("L60i", "L60t", i + 1)

L67 == Malloc("L67", "L69", "results", ResultsLen)

L69 == ForInit("L69", "L69t", 0)

\* Mutant: i <= 8.
Cond69_Inclusive(at) == at <= AddBound

Cond69(at) == at < AddBound

L69t == ForTest("L69t", "L83", "L100", Cond69(i))

\* __m128 a = _mm_load_ps(foo + i);
L83 == SetReg("L83", "L86", "a", LoadPs(mem.foo, i), Readable(mem.foo, i, Width))

\* printf("%f ", a.m128_f32[0]);
L86 == Printf("L86", "L91", "%f ", reg.a[0], reg.a[0] # Undef)

\* __m128 b = _mm_load_ps(bar + i);
L91 == SetReg("L91", "L94", "b", LoadPs(mem.bar, i), Readable(mem.bar, i, Width))

\* __m128 c = _mm_add_ps(a, b);
L94 == SetReg("L94", "L97", "c", AddPs(reg.a, reg.b), TRUE)

\* _mm_store_ps(results + i, c);
L97 == StoreTo("L97", "L69i", "results", i, reg.c)

L69i == ForInc("L69i", "L69t", i + Width)

L100 == Printf("L100", "L103", "\n\n", <<>>, TRUE)

L103 == Call("L103", "results", PrintResultsLen, "L117")

(***************************************************************************)
(* printFloats, lines 242-249.                                             *)
(***************************************************************************)
L243 == ForInit("L243", "L243t", 0)

Cond243(at, length) == at < length

L243t == ForTest("L243t", "L244", "L248", Cond243(i, call.length))

\* std::printf("%f", output[i]);
L244 ==
  Printf("L244", "L245", "%f", Rd(mem[call.output], i), Readable(mem[call.output], i, 1))

L245 == Printf("L245", "L243i", "\n", <<>>, TRUE)

L243i == ForInc("L243i", "L243t", i + 1)

\* std::printf("\n"); and the return to the caller
L248 == Printf("L248", call.ret, "\n", <<>>, TRUE)


(***************************************************************************)
(* main, lines 117-139: one dot product on an array of structs.            *)
(***************************************************************************)
L117 == Malloc("L117", "L118", "vectors", VectorsLen)

L118 == Assign("L118", "L119", "vectors", 0, F1_0)

L119 == Assign("L119", "L120", "vectors", 1, F1_0)

L120 == Assign("L120", "L121", "vectors", 2, F1_0)

L121 == Assign("L121", "L123", "vectors", 3, F1_0)

L123 == Assign("L123", "L124", "vectors", 4, F2_0)

L124 == Assign("L124", "L125", "vectors", 5, F2_0)

L125 == Assign("L125", "L126", "vectors", 6, F2_0)

L126 == Assign("L126", "L128", "vectors", 7, F2_0)

\* __m128 a = _mm_load_ps(vectors);
L128 == SetReg("L128", "L129", "a", LoadPs(mem.vectors, 0), Readable(mem.vectors, 0, Width))

\* __m128 b = _mm_load_ps(vectors + 4);
L129 == SetReg("L129", "L131", "b", LoadPs(mem.vectors, 4), Readable(mem.vectors, 4, Width))

\* __m128 c = _mm_mul_ps(a, b);
L131 == SetReg("L131", "L135", "c", MulPs(reg.a, reg.b), TRUE)

\* _mm_store_ps(results, c);
L135 == StoreTo("L135", "L136", "results", 0, reg.c)

\* float product = (results[0] + results[1]) + (results[2] + results[3]);
L136 ==
  SetReg("L136", "L139", "product",
         FAdd(FAdd(Rd(mem.results, 0), Rd(mem.results, 1)),
              FAdd(Rd(mem.results, 2), Rd(mem.results, 3))),
         Readable(mem.results, 0, 4))

\* printf("%f \n\n", product);
L139 == Printf("L139", "L156", "%f \n\n", reg.product, reg.product # Undef)

(***************************************************************************)
(* main, lines 156-176: the structure-of-arrays buffers and their values.  *)
(***************************************************************************)
L156 == Malloc("L156", "L157", "x", XLen)

L157 == Malloc("L157", "L158", "y", YLen)

L158 == Malloc("L158", "L159", "z", ZLen)

L159 == Malloc("L159", "L161", "w", WLen)

L161 == Malloc("L161", "L166", "dp", DpLen)

L166 == ForInit("L166", "L166t", 1)

\* Mutant: the last vector is left unwritten.
Cond166_StopsEarly(at) == at < InitBound - 1

Cond166(at) == at < InitBound

L166t == ForTest("L166t", "L167", "L173", Cond166(i))

L167 == Assign("L167", "L168", "x", i, F0_1)

L168 == Assign("L168", "L169", "y", i, F0_1)

L169 == Assign("L169", "L170", "z", i, F0_1)

L170 == Assign("L170", "L166i", "w", i, F0_1)

L166i == ForInc("L166i", "L166t", i + 1)

L173 == Assign("L173", "L174", "x", 0, F1_0)

L174 == Assign("L174", "L175", "y", 0, F1_0)

L175 == Assign("L175", "L176", "w", 0, F1_0)

L176 == Assign("L176", "L180", "z", 0, F1_0)

(***************************************************************************)
(* main, lines 180-217: the batched dot product.                           *)
(***************************************************************************)
\* __m128 r = _mm_load1_ps(name + 0);
LoadRef(from, to, r, name) ==
  /\ pc = from
  /\ pc' = to
  /\ reg' = [reg EXCEPT ![r] = Broadcast(mem[name])]
  /\ fault' = (fault \/ ~Readable(mem[name], 0, 1))
  /\ nload1' = [nload1 EXCEPT ![r] = @ + 1]
  /\ UNCHANGED <<i, mem, live, call, out, N, stored, wk, taken>>

L180 == LoadRef("L180", "L193", "x1", "x")

L193 == LoadRef("L193", "L194", "y1", "y")

L194 == LoadRef("L194", "L195", "z1", "z")

L195 == LoadRef("L195", "L198", "w1", "w")

L198 == ForInit("L198", "L198t", 0)

L198t == ForTest("L198t", "L201", "L219", Cond198(i, N))

L201 == SetReg("L201", "L202", "dx", MulStmt(reg.x1, mem.x, i), Readable(mem.x, i, Width))

L202 == SetReg("L202", "L203", "dy", MulStmt(reg.y1, mem.y, i), Readable(mem.y, i, Width))

\* Mutant: the z products are formed from y.
L203_LoadsY ==
  SetReg("L203", "L204", "dz", MulStmt(reg.z1, mem.y, i), Readable(mem.y, i, Width))

L203 == SetReg("L203", "L204", "dz", MulStmt(reg.z1, mem.z, i), Readable(mem.z, i, Width))

L204 == SetReg("L204", "L210", "dw", MulStmt(reg.w1, mem.w, i), Readable(mem.w, i, Width))

L210 == SetReg("L210", "L211", "dx", Add210(reg.dx, reg.dy), TRUE)

L211 == SetReg("L211", "L212", "dz", Add211(reg.dz, reg.dw), TRUE)

L212 == SetReg("L212", "L215", "dx", Add212(reg.dx, reg.dz), TRUE)

\* Mutant: _mm_store_ps(x + i, dx).
L215_StoresToX ==
  /\ pc = "L215"
  /\ pc' = "L198i"
  /\ mem' = [mem EXCEPT !.x = Store215(@, i, reg.dx)]
  /\ fault' = (fault \/ ~InBounds(mem.x, i, Width))
  /\ stored' = Append(stored, i)
  /\ UNCHANGED <<i, live, reg, call, out, N, nload1, wk, taken>>

\* _mm_store_ps(dp + i, dx);
L215 ==
  /\ pc = "L215"
  /\ pc' = "L198i"
  /\ mem' = [mem EXCEPT !.dp = Store215(@, i, reg.dx)]
  /\ fault' = (fault \/ ~InBounds(mem.dp, i, Width))
  /\ stored' = Append(stored, i)
  /\ UNCHANGED <<i, live, reg, call, out, N, nload1, wk, taken>>

L198i == ForInc("L198i", "L198t", Inc198(i))

(***************************************************************************)
(* main, lines 219-239: the report and the end of the program.             *)
(***************************************************************************)
L219 == Call("L219", "dp", PrintDpLen, "L238")

\* _getch(); the key is discarded, and main returns.  No buffer is freed:
\* the program holds no _aligned_free.
L238 ==
  /\ pc = "L238"
  /\ pc' = "exit"
  /\ UNCHANGED <<i, mem, live, reg, call, out, N, fault, stored, nload1, wk, taken>>

Next ==
  \/ L57 \/ L58 \/ L60 \/ L60t \/ L61 \/ L62 \/ L60i
  \/ L67 \/ L69 \/ L69t \/ L83 \/ L86 \/ L91 \/ L94 \/ L97 \/ L69i
  \/ L100 \/ L103
  \/ L243 \/ L243t \/ L244 \/ L245 \/ L243i \/ L248
  \/ L117 \/ L118 \/ L119 \/ L120 \/ L121 \/ L123 \/ L124 \/ L125 \/ L126
  \/ L128 \/ L129 \/ L131 \/ L135 \/ L136 \/ L139
  \/ L156 \/ L157 \/ L158 \/ L159 \/ L161
  \/ L166 \/ L166t \/ L167 \/ L168 \/ L169 \/ L170 \/ L166i
  \/ L173 \/ L174 \/ L175 \/ L176
  \/ L180 \/ L193 \/ L194 \/ L195
  \/ L198 \/ L198t \/ L201 \/ L202 \/ L203 \/ L204 \/ L210 \/ L211 \/ L212 \/ L215 \/ L198i
  \/ L219 \/ L238

\* The program.
Spec == Init /\ [][Next]_vars


(***************************************************************************)
(* The batched dot product on its own: lines 180-217 started on buffers    *)
(* of any length N that is a positive multiple of 4, holding any values    *)
(* of a small family.                                                      *)
(***************************************************************************)
\* The longest input, in blocks of four.
MaxBlocks == 2

\* 16777216.0f: a sum of it and 1.0f is not a float.
F2p24 == Mk(0, 1, Hidden)

\* -3.0f
FNeg3 == Mk(1, 0 - 22, 3 * 2^22)

\* The values the inputs are made of.  Their number and the width of a
\* block have no common factor, so that blocks differ from one another.
Vals == <<F1_0, F2p24, F0_1, FNeg3, FZero(0)>>

\* The input buffer that starts at Vals[p+1] and moves q values on per index.
Pattern(p, q, n) == [j \in 0 .. (n - 1) |-> Vals[((p + q * j) % Len(Vals)) + 1]]

Starts == 0 .. (Len(Vals) - 1)

Strides == {0, 1}

Lengths == {Width * k : k \in 1 .. MaxBlocks}

\* The state at line 180 for buffers bx, by, bz, bw of length n.
KernelStart(n, bx, by, bz, bw) ==
  /\ pc = "L180"
  /\ i = 0
  /\ N = n
  /\ mem = [NoMem EXCEPT !.x = bx, !.y = by, !.z = bz, !.w = bw, !.dp = AlignedMalloc(n)]
  /\ live = {"x", "y", "z", "w", "dp"}
  /\ reg = NoReg
  /\ call = NoCall
  /\ out = <<>>
  /\ fault = FALSE
  /\ stored = <<>>
  /\ nload1 = NoLoads
  /\ wk = IdleWorkers
  /\ taken = {}

KInit ==
  \E n \in Lengths, px \in Starts, py \in Starts, pz \in Starts, pw \in Starts,
     qx \in Strides, qy \in Strides, qz \in Strides, qw \in Strides :
       KernelStart(n, Pattern(px, qx, n), Pattern(py, qy, n),
                      Pattern(pz, qz, n), Pattern(pw, qw, n))

KNext ==
  \/ L180 \/ L193 \/ L194 \/ L195
  \/ L198 \/ L198t \/ L201 \/ L202 \/ L203 \/ L204 \/ L210 \/ L211 \/ L212 \/ L215 \/ L198i

\* The batched dot product, run in program order.
KernelSpec == KInit /\ [][KNext]_vars

(***************************************************************************)
(* The batched dot product as a function of its inputs: what lines         *)
(* 180-217 leave in dp.                                                    *)
(***************************************************************************)
\* One pass of the loop body (lines 201-215) at block `at`: the new dp.
BlockBody(m, r, at) ==
  LET vdx == MulStmt(r.x1, m.x, at)
      vdy == MulStmt(r.y1, m.y, at)
      vdz == MulStmt(r.z1, m.z, at)
      vdw == MulStmt(r.w1, m.w, at)
  IN Store215(m.dp, at, Add212(Add210(vdx, vdy), Add211(vdz, vdw)))

\* The loop of line 198 from i = at on.
RECURSIVE LoopFrom(_, _, _, _)
LoopFrom(m, r, at, bound) ==
  IF Cond198(at, bound)
    THEN LoopFrom([m EXCEPT !.dp = BlockBody(m, r, at)], r, Inc198(at), bound)
    ELSE m.dp

\* Lines 180-195: the four broadcast registers.
RefRegs(bx, by, bz, bw) ==
  [x1 |-> Broadcast(bx), y1 |-> Broadcast(by), z1 |-> Broadcast(bz), w1 |-> Broadcast(bw)]

\* Lines 198-217 on buffers of length n with broadcast registers r.
KernelWith(r, bx, by, bz, bw, n) ==
  LoopFrom([x |-> bx, y |-> by, z |-> bz, w |-> bw, dp |-> AlignedMalloc(n)], r, 0, n)

\* Lines 180-217 on buffers of length n.
Kernel(bx, by, bz, bw, n) == KernelWith(RefRegs(bx, by, bz, bw), bx, by, bz, bw, n)

\* The values of i the loop of line 198 runs its body at.
RECURSIVE LoopValues(_, _)
LoopValues(at, bound) ==
  IF Cond198(at, bound) THEN {at} \cup LoopValues(Inc198(at), bound) ELSE {}

(***************************************************************************)
(* The blocks of the loop handed to workers that run the loop body         *)
(* (lines 201-215) concurrently, each on a block no other worker has       *)
(* taken, statement by statement, in any interleaving.  The broadcast      *)
(* registers are loaded once by main; dx .. dw are private to a worker.    *)
(***************************************************************************)
\* A worker starts the body on a block that is not yet taken.
Take(t) ==
  /\ pc = "L198"
  /\ wk[t].pc = "idle"
  /\ \E b \in LoopValues(0, N) \ taken :
       /\ taken' = taken \cup {b}
       /\ wk' = [wk EXCEPT ![t].pc = "L201", ![t].i = b]
  /\ UNCHANGED <<pc, i, mem, live, reg, call, out, N, fault, stored, nload1>>

\* A worker's statement that assigns its private register r.
WSet(t, from, to, r, val, ok) ==
  /\ pc = "L198"
  /\ wk[t].pc = from
  /\ wk' = [wk EXCEPT ![t].pc = to, ![t][r] = val]
  /\ fault' = (fault \/ ~ok)
  /\ UNCHANGED <<pc, i, mem, live, reg, call, out, N, stored, nload1, taken>>

T201(t) ==
  WSet(t, "L201", "L202", "dx", MulStmt(reg.x1, mem.x, wk[t].i), Readable(mem.x, wk[t].i, Width))

T202(t) ==
  WSet(t, "L202", "L203", "dy", MulStmt(reg.y1, mem.y, wk[t].i), Readable(mem.y, wk[t].i, Width))

T203(t) ==
  WSet(t, "L203", "L204", "dz", MulStmt(reg.z1, mem.z, wk[t].i), Readable(mem.z, wk[t].i, Width))

T204(t) ==
  WSet(t, "L204", "L210", "dw", MulStmt(reg.w1, mem.w, wk[t].i), Readable(mem.w, wk[t].i, Width))

T210(t) == WSet(t, "L210", "L211", "dx", Add210(wk[t].dx, wk[t].dy), TRUE)

T211(t) == WSet(t, "L211", "L212", "dz", Add211(wk[t].dz, wk[t].dw), TRUE)

T212(t) == WSet(t, "L212", "L215", "dx", Add212(wk[t].dx, wk[t].dz), TRUE)

T215(t) ==
  /\ pc = "L198"
  /\ wk[t].pc = "L215"
  /\ mem' = [mem EXCEPT !.dp = Store215(@, wk[t].i, wk[t].dx)]
  /\ fault' = (fault \/ ~InBounds(mem.dp, wk[t].i, Width))
  /\ stored' = Append(stored, wk[t].i)
  /\ wk' = [wk EXCEPT ![t].pc = "idle"]
  /\ UNCHANGED <<pc, i, live, reg, call, out, N, nload1, taken>>

\* A smaller family of inputs: every length, x and w of every start, moving
\* on per index.
PInit ==
  \E n \in Lengths, px \in Starts, pw \in Starts :
       KernelStart(n, Pattern(px, 1, n), Pattern(px + 1, 1, n),
                      Pattern(2, 0, n), Pattern(pw, 1, n))

\* The batched dot product run in program order, the processor never
\* stopping while a statement is left to execute.
FairKernelSpec == PInit /\ [][KNext]_vars /\ WF_vars(KNext)

PNext ==
  \/ L180 \/ L193 \/ L194 \/ L195
  \/ \E t \in Workers :
       \/ Take(t)
       \/ T201(t) \/ T202(t) \/ T203(t) \/ T204(t)
       \/ T210(t) \/ T211(t) \/ T212(t) \/ T215(t)

\* The batched dot product with its blocks run concurrently.
ParSpec == PInit /\ [][PNext]_vars


(***************************************************************************)
(* Properties.                                                             *)
(***************************************************************************)
\* first[0]*first[j] in binary32.
Prod(buf, j) == FMul(buf[0], buf[j])

\* The dot product of vector 0 and vector j, the sum grouped pairwise.
Dot(m, j) == FAdd(FAdd(Prod(m.x, j), Prod(m.y, j)), FAdd(Prod(m.z, j), Prod(m.w, j)))

\* The same products summed left to right.
DotFold(m, j) == FAdd(FAdd(FAdd(Prod(m.x, j), Prod(m.y, j)), Prod(m.z, j)), Prod(m.w, j))

\* Elements b .. b+3 of a buffer, as a buffer of their own.
Slice(buf, b) == [j \in 0 .. (Width - 1) |-> buf[b + j]]

\* The statements of the loop at line 198.
LoopLabels == {"L198t", "L201", "L202", "L203", "L204", "L210", "L211", "L212", "L215", "L198i"}

\* C1: when the batched loop has finished on inputs of length N, every
\* result[j], j in [0, N), is first[0]*first[j] + second[0]*second[j] +
\* third[0]*third[j] + fourth[0]*fourth[j] (binary32 products, summed
\* pairwise), result[0] being the squared magnitude of vector 0; and at each
\* loop test the blocks below i already hold their dot products.
C1_DotProducts ==
  /\ pc = "L219" =>
       /\ \A j \in 0 .. (N - 1) : mem.dp[j] = Dot(mem, j) /\ IsNum(mem.dp[j])
       /\ mem.dp[0] = FAdd(FAdd(FMul(mem.x[0], mem.x[0]), FMul(mem.y[0], mem.y[0])),
                           FAdd(FMul(mem.z[0], mem.z[0]), FMul(mem.w[0], mem.w[0])))
  /\ pc = "L198t" => \A j \in 0 .. (i - 1) : mem.dp[j] = Dot(mem, j)

\* C1 witness: a finished run of two blocks or more whose results differ
\* between vectors.
C1_Witness ==
  /\ pc = "L219"
  /\ N > Width
  /\ mem.dp[0] # mem.dp[Width]
  /\ mem.dp[1] # mem.dp[2]

\* C2: no step of the batched dot product changes an element of x, y, z or w.
C2_InputsUnchanged ==
  [][mem'.x = mem.x /\ mem'.y = mem.y /\ mem'.z = mem.z /\ mem'.w = mem.w]_vars

\* C2 witness: the loop has finished and has written every result.
C2_Witness ==
  /\ pc = "L219"
  /\ N > Width
  /\ Len(stored) * Width = N
  /\ \A j \in 0 .. (N - 1) : mem.dp[j] # Undef

\* C3, as stated: the results of block b are those of lines 180-217 run on
\* elements b .. b+3 alone.
C3_BlockInIsolation ==
  pc = "L219" =>
    \A b \in LoopValues(0, N) : \A k \in Lanes :
      mem.dp[b + k] =
        Kernel(Slice(mem.x, b), Slice(mem.y, b), Slice(mem.z, b), Slice(mem.w, b), Width)[k]

\* C3, amended: the results of block b are those of the loop run on elements
\* b .. b+3 alone with the broadcast registers of the full input (element 0
\* of the full arrays); for block 0 that is the run on the block alone.
C3_BlockWithReference ==
  pc = "L219" =>
    /\ \A b \in LoopValues(0, N) : \A k \in Lanes :
         mem.dp[b + k] =
           KernelWith(RefRegs(mem.x, mem.y, mem.z, mem.w),
                      Slice(mem.x, b), Slice(mem.y, b), Slice(mem.z, b), Slice(mem.w, b),
                      Width)[k]
    /\ \A k \in Lanes :
         mem.dp[k] =
           Kernel(Slice(mem.x, 0), Slice(mem.y, 0), Slice(mem.z, 0), Slice(mem.w, 0), Width)[k]

\* C3 witness: a finished run with a block past the first whose results are
\* not those of the run on that block alone.
C3_Witness ==
  /\ pc = "L219"
  /\ \E b \in LoopValues(0, N) : \E k \in Lanes :
       /\ b > 0
       /\ IsNum(mem.dp[b + k])
       /\ mem.dp[b + k] #
            Kernel(Slice(mem.x, b), Slice(mem.y, b), Slice(mem.z, b), Slice(mem.w, b), Width)[k]

\* Every block is taken and every worker has finished its block.
ParDone ==
  /\ pc = "L198"
  /\ taken = LoopValues(0, N)
  /\ \A t \in Workers : wk[t].pc = "idle"

\* The number of stores to dp that covered index j.
StoresAt(j) == Cardinality({k \in 1 .. Len(stored) : stored[k] <= j /\ j < stored[k] + Width})

\* C4: with the blocks run by concurrent workers in any order and any
\* interleaving of their statements, dp ends as the in-order loop leaves it;
\* no result index is stored twice, each is stored once at the end, and no
\* two workers hold the same block.
C4_AnyOrder ==
  /\ ParDone => mem.dp = Kernel(mem.x, mem.y, mem.z, mem.w, N)
  /\ ParDone => \A j \in 0 .. (N - 1) : StoresAt(j) = 1
  /\ \A j \in 0 .. (N - 1) : StoresAt(j) <= 1
  /\ \A t \in Workers : \A u \in Workers :
       (t # u /\ wk[t].pc # "idle" /\ wk[u].pc # "idle") => wk[t].i # wk[u].i

\* C4 witness: a finished concurrent run that stored a later block first.
C4_Witness ==
  /\ ParDone
  /\ Len(stored) >= 2
  /\ stored[1] > stored[2]
  /\ mem.dp[0] # mem.dp[Width]

\* 4.0f
F4_0 == Mk(0, 0 - 21, Hidden)

\* 0.4f, the float nearest 0.4: 13421773 * 2^-25.
F0_4 == Mk(0, 0 - 25, 13421773)

\* The statements of main after the batched loop, and of printFloats(dp, 8).
AfterKernel ==
  \/ pc \in {"L219", "L238", "exit"}
  \/ pc \in {"L243", "L243t", "L244", "L245", "L243i", "L248"} /\ call.output = "dp"

\* The first n elements of a buffer, as a buffer of their own.
Prefix(buf, n) == [j \in 0 .. (n - 1) |-> buf[j]]

\* C5: the program's initialization leaves vector 0 at (1,1,1,1) and every
\* other vector at (0.1f,0.1f,0.1f,0.1f), and from the end of the batched
\* loop on dp[0] = 4.0 and dp[j] = 0.4f for every j > 0; the batched dot
\* product of the first 16 vectors alone (vector 0 and 15 vectors of 0.1f)
\* gives 4.0 and fifteen times 0.4f.
C5_ProgramValues ==
  /\ pc = "L180" =>
       /\ mem.x[0] = F1_0 /\ mem.y[0] = F1_0 /\ mem.z[0] = F1_0 /\ mem.w[0] = F1_0
       /\ \A j \in 1 .. (XLen - 1) :
            mem.x[j] = F0_1 /\ mem.y[j] = F0_1 /\ mem.z[j] = F0_1 /\ mem.w[j] = F0_1
  /\ AfterKernel =>
       /\ mem.dp[0] = F4_0
       /\ \A j \in 1 .. (DpLen - 1) : mem.dp[j] = F0_4
  /\ pc = "L219" =>
       LET r == Kernel(Prefix(mem.x, 16), Prefix(mem.y, 16),
                       Prefix(mem.z, 16), Prefix(mem.w, 16), 16)
       IN /\ DOMAIN r = 0 .. 15
          /\ r[0] = F4_0
          /\ \A j \in 1 .. 15 : r[j] = F0_4

\* C5 witness: the program has ended and has printed 4.0 and then 0.4f.
C5_Witness ==
  /\ pc = "exit"
  /\ mem.dp[0] = F4_0
  /\ mem.dp[DpLen - 1] = F0_4
  /\ out[Len(out) - 2 * PrintDpLen] = <<"%f", F4_0>>
  /\ out[Len(out) - 2] = <<"%f", F0_4>>

\* C6: x, y, z, w and dp are allocated and written (the inputs) when the
\* batched dot product starts and while it runs, and no buffer is still
\* allocated when the program exits.
C6_BufferLifecycle ==
  /\ pc \in ({"L180", "L193", "L194", "L195", "L198"} \cup LoopLabels) =>
       /\ {"x", "y", "z", "w", "dp"} \subseteq live
       /\ Readable(mem.x, 0, XLen) /\ Readable(mem.y, 0, YLen)
       /\ Readable(mem.z, 0, ZLen) /\ Readable(mem.w, 0, WLen)
       /\ InBounds(mem.dp, 0, DpLen)
  /\ pc = "exit" => live = {}

\* C7: from the loop's start to its end each of x1, y1, z1, w1 has been
\* loaded by exactly one _mm_load1_ps (all before the loop), and holds
\* element 0 of x, y, z, w in all four lanes.
C7_BroadcastOnce ==
  pc \in (LoopLabels \cup {"L198", "L219"}) =>
    /\ \A r \in DOMAIN nload1 : nload1[r] = 1
    /\ reg.x1 = [k \in Lanes |-> mem.x[0]]
    /\ reg.y1 = [k \in Lanes |-> mem.y[0]]
    /\ reg.z1 = [k \in Lanes |-> mem.z[0]]
    /\ reg.w1 = [k \in Lanes |-> mem.w[0]]

\* C7 witness: the second pass of the loop body, on an x whose element 1 is
\* not its element 0.
C7_Witness ==
  /\ pc = "L201"
  /\ i > 0
  /\ mem.x[0] # mem.x[1]
  /\ reg.x1[1] = mem.x[0]

\* C8: in every block and lane, after line 210 dx is the sum of the first and
\* second products only, after line 211 dz is the sum of the third and fourth
\* products only, after line 212 dx is the sum of these two sums, and that is
\* what line 215 stores.
C8_PairwiseTree ==
  /\ pc = "L211" =>
       \A k \in Lanes :
         /\ reg.dx[k] = FAdd(Prod(mem.x, i + k), Prod(mem.y, i + k))
         /\ reg.dz[k] = Prod(mem.z, i + k)
         /\ reg.dw[k] = Prod(mem.w, i + k)
  /\ pc = "L212" =>
       \A k \in Lanes :
         /\ reg.dx[k] = FAdd(Prod(mem.x, i + k), Prod(mem.y, i + k))
         /\ reg.dz[k] = FAdd(Prod(mem.z, i + k), Prod(mem.w, i + k))
  /\ pc = "L215" => \A k \in Lanes : reg.dx[k] = Dot(mem, i + k)
  /\ pc = "L198i" => \A k \in Lanes : mem.dp[i + k] = Dot(mem, i + k)

\* C8 witness: a block is stored in which a lane's pairwise sum is not the
\* left-to-right sum of the same products.
C8_Witness ==
  /\ pc = "L198i"
  /\ \E k \in Lanes :
       /\ IsNum(mem.dp[i + k])
       /\ IsNum(DotFold(mem, i + k))
       /\ mem.dp[i + k] # DotFold(mem, i + k)

\* C9: the loop ends, and when it has ended the stores to dp were at
\* 0, 4, ..., N-4 in this order, one per pass, N/4 passes, every result index
\* stored once.
C9_Terminates ==
  <>(/\ pc = "L219"
     /\ Len(stored) * Width = N
     /\ \A k \in 1 .. Len(stored) : stored[k] = Width * (k - 1)
     /\ \A j \in 0 .. (N - 1) : StoresAt(j) = 1
     /\ i = N)

\* C9 witness: the loop has ended after two passes or more.
C9_Witness ==
  /\ pc = "L219"
  /\ Len(stored) >= 2
  /\ stored[Len(stored)] = N - Width

\* C10: no statement of the program reads or writes outside a buffer or reads
\* a float that was never written: every 4-wide access at offset i lies in
\* the 8 floats of foo, bar, results, vectors or the 64 floats of x, y, z, w,
\* dp, and printFloats prints written floats only.
C10_MemorySafe ==
  /\ fault = FALSE
  /\ pc = "L83" => i >= 0 /\ i + Width <= FooLen /\ Readable(mem.foo, i, Width)
  /\ pc = "L91" => i >= 0 /\ i + Width <= BarLen /\ Readable(mem.bar, i, Width)
  /\ pc = "L97" => i >= 0 /\ i + Width <= ResultsLen
  /\ pc = "L128" => Readable(mem.vectors, 0, Width)
  /\ pc = "L129" => Readable(mem.vectors, Width, Width)
  /\ pc = "L136" => Readable(mem.results, 0, Width)
  /\ pc = "L201" => i >= 0 /\ i + Width <= XLen /\ Readable(mem.x, i, Width)
  /\ pc = "L202" => i >= 0 /\ i + Width <= YLen /\ Readable(mem.y, i, Width)
  /\ pc = "L203" => i >= 0 /\ i + Width <= ZLen /\ Readable(mem.z, i, Width)
  /\ pc = "L204" => i >= 0 /\ i + Width <= WLen /\ Readable(mem.w, i, Width)
  /\ pc = "L215" => i >= 0 /\ i + Width <= DpLen
  /\ pc = "L244" => Readable(mem[call.output], i, 1)

\* C10 witness: the program has ended after its loads, stores and prints.
C10_Witness ==
  /\ pc = "exit"
  /\ fault = FALSE
  /\ Len(stored) * Width = DpLen
  /\ Len(out) > PrintResultsLen + PrintDpLen

=============================================================================
